---- MODULE Spec2Model ----
(***************************************************************************)
(* Anvaya backend (src/index.js): the express handlers over the three      *)
(* mongoose collections (leads, sales agents, comments).                   *)
(*                                                                         *)
(* A handler is an async function: it runs to its first await, the store   *)
(* applies the awaited operation, and the continuation runs later.  Each   *)
(* action below is one such piece: the synchronous code up to an await     *)
(* together with the store operation awaited, or the code after the last   *)
(* await together with the response.  The requests in flight are a set, so  *)
(* that the pieces of different requests interleave.                       *)
(*                                                                         *)
(* Store operations are taken to succeed (no connection failure); the      *)
(* deterministic failures of the code itself (a cast error on a malformed  *)
(* id, a ReferenceError) are modelled.                                     *)
(***************************************************************************)
EXTENDS Integers, Sequences, FiniteSets, TLC

\* ---------------------------------------------------------------- bounds
MaxLeads == 2       \* lead ids the store hands out
MaxAgents == 1      \* agent ids the store hands out
MaxComments == 2    \* comment ids the store hands out
MaxInFlight == 2    \* requests in flight at once
TicksPerDay == 2    \* clock ticks in a day

\* ------------------------------------------------------------ identifiers
NoRef == 0          \* an absent (undefined) reference
BadId == -1         \* a string that is no ObjectId
NoDate == -1        \* an unset date
DefaultAuthor == 99 \* "6903b32407758bda66dce80a"
Absent == "<undefined>"

LeadIdArgs == (1..MaxLeads) \cup {BadId}
AgentRefs == (1..MaxAgents) \cup {NoRef, BadId}

IsValidObjectId(x) == x # BadId

VARIABLES
    leads,      \* the lead collection: a set of lead documents
    agents,     \* the sales-agent collection
    comments,   \* the comment collection
    nextLead, nextAgent, nextComment,   \* the next _id of each collection
    now,        \* the clock, in ticks
    inflight,   \* the requests whose handler is suspended at an await
    resp,       \* the response the last step sent, NoResp if it sent none
    removed,    \* history: ids of the leads removed by DELETE /leads/:id
    rejected,   \* history: ids of the leads whose POST /leads was answered 404
    firstDelete, \* history: per lead id, the status of the first DELETE answered
    answered200  \* history: per lead id, the DELETEs answered 200 (2: two or more)

vars == <<leads, agents, comments, nextLead, nextAgent, nextComment, now,
          inflight, resp, removed, rejected, firstDelete, answered200>>
store == <<leads, agents, comments, nextLead, nextAgent, nextComment>>
history == <<removed, rejected, firstDelete, answered200>>

LeadIds(ls) == {l.id : l \in ls}

\* ---------------------------------------------------------------- requests
\* A request: the handler (kind), where it is suspended (pc), its :id, the
\* handler's locals (docs, found, list, count, threw, author) and, for the properties,
\* what the store and the clock held when they were read (hit, known, seen, at)
\* and whether the body was one that field validation is to refuse (bad).
NewReq(kind, id) ==
    [kind |-> kind, pc |-> "start", id |-> id, errors |-> {}, docs |-> {},
     found |-> {}, list |-> <<>>, count |-> 0, status |-> 0, threw |-> FALSE,
     author |-> NoRef, hit |-> FALSE, known |-> FALSE, bad |-> FALSE,
     seen |-> {}, at |-> 0]

NoResp == NewReq("none", NoRef)

Respond(r, st) == [r EXCEPT !.pc = "done", !.status = st]

CanStart == Cardinality(inflight) < MaxInFlight

Suspend(r) == inflight' = inflight \cup {r} /\ resp' = NoResp

\* r resumes and suspends again as q
Resume(r, q) == inflight' = (inflight \ {r}) \cup {q} /\ resp' = NoResp

\* r resumes and answers
Finish(r, st) == inflight' = inflight \ {r} /\ resp' = Respond(r, st)

Awaiting(kind, pc) == {r \in inflight : r.kind = kind /\ r.pc = pc}

\* ------------------------------------------------------------- validateLead
StatusEnum == {"New", "Contacted", "Qualified", "Proposal Sent", "Closed"}
PriorityEnum == {"High", "Medium", "Low"}
Digits == {"0", "1", "2", "3", "4", "5", "6", "7", "8", "9"}

\* isNumeric, on the characters of the value
IsNumeric(v) == Len(v) > 0 /\ \A i \in 1..Len(v) : v[i] \in Digits

\* isMongoId: BadId stands for every string that is not 24 hex digits
IsMongoId(x) == x # BadId

\* validateLead without its status chain
ValidateLeadNoStatus(b) ==
    {f \in {"name"} : b.name = "" \/ Len(b.name) < 2}
    \cup {f \in {"salesAgent"} : b.salesAgent # NoRef /\ ~IsMongoId(b.salesAgent)}
    \cup {f \in {"priority"} : b.priority # Absent /\ b.priority \notin PriorityEnum}
    \cup {f \in {"timeToClose"} : b.timeToClose # <<>> /\ ~IsNumeric(b.timeToClose)}

\* The fields validationResult(req) holds an error for.  NoRef, Absent and <<>>
\* are the undefined values that .optional() lets through.
ValidateLead(b) ==
    {f \in {"name"} : b.name = "" \/ Len(b.name) < 2}
    \cup {f \in {"salesAgent"} : b.salesAgent # NoRef /\ ~IsMongoId(b.salesAgent)}
    \cup {f \in {"status"} : b.status \notin StatusEnum}
    \cup {f \in {"priority"} : b.priority # Absent /\ b.priority \notin PriorityEnum}
    \cup {f \in {"timeToClose"} : b.timeToClose # <<>> /\ ~IsNumeric(b.timeToClose)}

\* Bodies: each field with a value that passes, a value that fails and, where
\* the field may be left out, no value
AllBodies ==
    [name : {"Al", "A", ""},
     salesAgent : AgentRefs,
     status : {"New", "Closed", "Bogus", Absent},
     priority : {Absent, "High", "Urgent"},
     timeToClose : {<<>>, <<"3", "0">>, <<"3", "d">>}]

\* The bodies the requests of Spec carry: the valid bodies of every status and
\* reference, and a failure of the status and of the salesAgent validator.
Bodies ==
    {b \in AllBodies :
        /\ b.name = "Al" /\ b.priority = Absent /\ b.timeToClose = <<>>
        /\ b.status # Absent
        /\ b.status = "Bogus" => b.salesAgent = NoRef
        /\ b.salesAgent = BadId => b.status = "New"}

\* The bodies that name no agent
UpdateBodies == {b \in Bodies : b.salesAgent = NoRef}

\* The bodies whose status, when valid, is New
ValidationBodies == {b \in AllBodies : b.status # "Closed"}

\* ------------------------------------------------------------- lead schema
\* closedAt is set when the status becomes Closed
ClosedAtOnWrite(status, old, t) ==
    IF status = "Closed" THEN (IF old = NoDate THEN t ELSE old) ELSE old

NewLeadDoc(id, b, t) ==
    [id |-> id, status |-> b.status, salesAgent |-> b.salesAgent,
     closedAt |-> ClosedAtOnWrite(b.status, NoDate, t)]

\* -------------------------------------------------------------- POST /leads
\* createNewLead with the save lost
CreateNewLeadUnsaved(ls, doc) == ls

CreateNewLead(ls, doc) == ls \cup {doc}

FindAgentById(as, id) == {a \in as : a.id = id}

PostLeadsStart(b) ==
    /\ LET errors == ValidateLead(b)
           r == [NewReq("POST /leads", NoRef) EXCEPT
                    !.bad = b.status \notin StatusEnum \/ b.salesAgent = BadId]
       IN IF errors # {}
          THEN /\ Finish([r EXCEPT !.errors = errors], 400)
               /\ UNCHANGED <<leads, nextLead>>
          ELSE /\ CanStart
               /\ nextLead <= MaxLeads
               /\ LET newLead == NewLeadDoc(nextLead, b, now)
                  IN /\ leads' = CreateNewLead(leads, newLead)
                     /\ nextLead' = nextLead + 1
                     /\ Suspend([r EXCEPT !.pc = "saved", !.id = newLead.id,
                                          !.docs = {newLead}])
    /\ UNCHANGED <<agents, comments, nextAgent, nextComment, now, history>>

PostLeadsCheckAgent(r) ==
    /\ r \in Awaiting("POST /leads", "saved")
    /\ LET newLead == CHOOSE d \in r.docs : TRUE
       IN IF newLead.salesAgent = NoRef
          THEN Finish(r, 201)
          ELSE IF ~IsValidObjectId(newLead.salesAgent)
          THEN Finish(r, 400)
          ELSE Resume(r, [r EXCEPT !.pc = "looked",
                                   !.found = FindAgentById(agents, newLead.salesAgent),
                                   !.hit = newLead.salesAgent \in {a.id : a \in agents}])
    /\ UNCHANGED <<store, now, history>>

PostLeadsRespond(r) ==
    /\ r \in Awaiting("POST /leads", "looked")
    /\ IF r.found = {}
       THEN Finish(r, 404) /\ rejected' = rejected \cup {r.id}
       ELSE Finish(r, 201) /\ UNCHANGED rejected
    /\ UNCHANGED <<store, now, removed, firstDelete, answered200>>

\* ----------------------------------------------------------- PUT /leads/:id
\* findByIdAndUpdate with upsert: a missing document is created
UpdateLeadByIdUpsert(ls, id, b, t) ==
    IF id \in LeadIds(ls)
    THEN {IF l.id = id THEN NewLeadDoc(id, b, t) ELSE l : l \in ls}
    ELSE ls \cup {NewLeadDoc(id, b, t)}

\* findByIdAndUpdate(leadId, updateData): the fields of the body are set
UpdateLeadById(ls, id, b, t) ==
    {IF l.id = id
     THEN [l EXCEPT !.status = b.status,
                    !.salesAgent = IF b.salesAgent = NoRef THEN @ ELSE b.salesAgent,
                    !.closedAt = ClosedAtOnWrite(b.status, @, t)]
     ELSE l : l \in ls}

PutLeadStart(id, b) ==
    /\ LET errors == ValidateLead(b)
           r == NewReq("PUT /leads/:id", id)
       IN IF errors # {}
          THEN /\ Finish([r EXCEPT !.errors = errors], 400)
               /\ UNCHANGED leads
          ELSE IF ~IsValidObjectId(id)
          THEN /\ Finish(r, 400)
               /\ UNCHANGED leads
          ELSE /\ CanStart
               /\ leads' = UpdateLeadById(leads, id, b, now)
               /\ Suspend([r EXCEPT !.pc = "updated",
                                    !.docs = {l \in leads' : l.id = id},
                                    !.hit = id \in LeadIds(leads)])
    /\ UNCHANGED <<agents, comments, nextLead, nextAgent, nextComment, now, history>>

PutLeadRespond(r) ==
    /\ r \in Awaiting("PUT /leads/:id", "updated")
    /\ IF r.docs = {} THEN Finish(r, 404) ELSE Finish(r, 200)
    /\ UNCHANGED <<store, now, history>>

\* -------------------------------------------------------- DELETE /leads/:id
\* findByIdAndDelete that finds the document and leaves it in the collection
DeleteLeadByIdKept(ls, id) == ls

DeleteLeadById(ls, id) == {l \in ls : l.id # id}

DeleteLeadStart(id) ==
    /\ LET r == NewReq("DELETE /leads/:id", id)
       IN IF ~IsValidObjectId(id)
          THEN /\ Finish(r, 400)
               /\ UNCHANGED <<leads, removed>>
          ELSE /\ CanStart
               /\ LET deletedLead == {l \in leads : l.id = id}
                  IN /\ leads' = DeleteLeadById(leads, id)
                     /\ removed' = removed \cup LeadIds(deletedLead)
                     /\ Suspend([r EXCEPT !.pc = "deleted", !.docs = deletedLead,
                                          !.hit = id \in LeadIds(leads),
                                          !.known = id < nextLead])
    /\ UNCHANGED <<agents, comments, nextLead, nextAgent, nextComment, now,
                   rejected, firstDelete, answered200>>

DeleteLeadRespond(r) ==
    /\ r \in Awaiting("DELETE /leads/:id", "deleted")
    /\ LET st == IF r.docs = {} THEN 404 ELSE 200
       IN /\ Finish(r, st)
          /\ firstDelete' =
               IF r.known /\ firstDelete[r.id] = 0
               THEN [firstDelete EXCEPT ![r.id] = st]
               ELSE firstDelete
          /\ answered200' =
               IF st = 200
               THEN [answered200 EXCEPT ![r.id] = IF @ = 0 THEN 1 ELSE 2]
               ELSE answered200
    /\ UNCHANGED <<store, now, removed, rejected>>

\* ------------------------------------------------------------- POST /agents
\* validateAgent: the body's name and email pass or not
PostAgentsStart(ok) ==
    /\ LET r == NewReq("POST /agents", NoRef)
       IN IF ~ok
          THEN /\ Finish([r EXCEPT !.errors = {"agent"}], 400)
               /\ UNCHANGED <<agents, nextAgent>>
          ELSE /\ CanStart
               /\ nextAgent <= MaxAgents
               /\ agents' = agents \cup {[id |-> nextAgent]}
               /\ nextAgent' = nextAgent + 1
               /\ Suspend([r EXCEPT !.pc = "saved", !.id = nextAgent])
    /\ UNCHANGED <<leads, comments, nextLead, nextComment, now, history>>

PostAgentsRespond(r) ==
    /\ r \in Awaiting("POST /agents", "saved")
    /\ Finish(r, 201)
    /\ UNCHANGED <<store, now, history>>

\* -------------------------------------------------------------- GET /agents
FetchSalesAgents(as) == as

\* The else branch sets 404 and then evaluates error.message, where no
\* `error` is in scope: the ReferenceError is caught and answered 500.
GetAgentsStatus(as) == IF Cardinality(as) > 0 THEN 200 ELSE 500

GetAgentsStart ==
    /\ CanStart
    /\ Suspend([NewReq("GET /agents", NoRef) EXCEPT
                   !.pc = "fetched", !.docs = FetchSalesAgents(agents),
                   !.seen = agents])
    /\ UNCHANGED <<store, now, history>>

GetAgentsRespond(r) ==
    /\ r \in Awaiting("GET /agents", "fetched")
    /\ Finish(r, GetAgentsStatus(r.docs))
    /\ UNCHANGED <<store, now, history>>

\* ------------------------------------------------------ GET /report/pipeline
\* countDocuments with a filter on the status
CountOpenDocuments(ls) == Cardinality({l \in ls : l.status # "Closed"})

CountDocuments(ls) == Cardinality(ls)

GetPipelineStart ==
    /\ CanStart
    /\ Suspend([NewReq("GET /report/pipeline", NoRef) EXCEPT
                   !.pc = "counted", !.count = CountDocuments(leads),
                   !.at = Cardinality(leads),
                   !.hit = LeadIds(leads) \cap rejected # {},
                   !.known = \E l \in leads : l.status = "Closed"])
    /\ UNCHANGED <<store, now, history>>

GetPipelineRespond(r) ==
    /\ r \in Awaiting("GET /report/pipeline", "counted")
    /\ Finish(r, 200)
    /\ UNCHANGED <<store, now, history>>

\* ------------------------------------------------- POST /leads/:id/comments
\* A commentText: its typeof, and whether the value is truthy
CommentTexts ==
    {[type |-> "string", truthy |-> TRUE], [type |-> "string", truthy |-> FALSE],
     [type |-> "number", truthy |-> TRUE]}

\* The author of the body: left out
CommentAuthors == {NoRef}

ValidCommentText(text) == text.truthy /\ text.type = "string"

\* find() in the place of findById(leadId)
FindAnyLead(ls, id) == ls

FindLeadById(ls, id) == {l \in ls : l.id = id}

NewCommentDoc(id, leadId, author, t) ==
    [id |-> id, lead |-> leadId,
     author |-> IF author # NoRef THEN author ELSE DefaultAuthor,
     createdAt |-> t]

\* The comments some request has still to save
PendingComments == Cardinality(Awaiting("POST /leads/:id/comments", "looked"))

\* findById(leadId) rejects with a CastError when leadId is no ObjectId
PostCommentStart(id, text, author) ==
    /\ LET r == NewReq("POST /leads/:id/comments", id)
       IN IF ~ValidCommentText(text)
          THEN Finish([r EXCEPT !.errors = {"commentText"}], 400)
          ELSE /\ CanStart
               /\ nextComment + PendingComments <= MaxComments
               /\ Suspend([r EXCEPT !.pc = "looked", !.author = author,
                                    !.threw = ~IsValidObjectId(id),
                                    !.found = FindLeadById(leads, id),
                                    !.hit = id \in LeadIds(leads)])
    /\ UNCHANGED <<store, now, history>>

\* createNewComment: the save, and the populate of the author that follows it
PostCommentSave(r) ==
    /\ r \in Awaiting("POST /leads/:id/comments", "looked")
    /\ IF r.threw
       THEN Finish(r, 500) /\ UNCHANGED <<comments, nextComment>>
       ELSE IF r.found = {}
       THEN Finish(r, 404) /\ UNCHANGED <<comments, nextComment>>
       ELSE LET newComment == NewCommentDoc(nextComment, r.id, r.author, now)
            IN /\ comments' = comments \cup {newComment}
               /\ nextComment' = nextComment + 1
               /\ Resume(r, [r EXCEPT !.pc = "populated", !.docs = {newComment},
                                      !.found = FindAgentById(agents, newComment.author)])
    /\ UNCHANGED <<leads, agents, nextLead, nextAgent, now, history>>

PostCommentRespond(r) ==
    /\ r \in Awaiting("POST /leads/:id/comments", "populated")
    /\ Finish(r, 201)
    /\ UNCHANGED <<store, now, history>>

\* -------------------------------------------------- GET /leads/:id/comments
\* The sequences that hold each element of S once
Orderings(S) ==
    {f \in [1..Cardinality(S) -> S] : \A x \in S : \E i \in DOMAIN f : f[i] = x}

\* sort({ createdAt: 1 })
SortByCreatedAtAsc(S) ==
    {f \in Orderings(S) :
        \A i \in 1..(Len(f) - 1) : f[i].createdAt <= f[i + 1].createdAt}

\* sort({ createdAt: -1 }): documents of equal createdAt come in any order
SortByCreatedAtDesc(S) ==
    {f \in Orderings(S) :
        \A i \in 1..(Len(f) - 1) : f[i].createdAt >= f[i + 1].createdAt}

\* find({ lead: leadId }).sort({ createdAt: -1 })
FetchAllComments(cs, leadId) == SortByCreatedAtDesc({c \in cs : c.lead = leadId})

GetCommentsStart(id) ==
    /\ LET r == NewReq("GET /leads/:id/comments", id)
       IN IF ~IsValidObjectId(id)
          THEN Finish(r, 400)
          ELSE /\ CanStart
               /\ Suspend([r EXCEPT !.pc = "looked",
                                    !.found = FindLeadById(leads, id),
                                    !.hit = id \in LeadIds(leads)])
    /\ UNCHANGED <<store, now, history>>

GetCommentsFetch(r) ==
    /\ r \in Awaiting("GET /leads/:id/comments", "looked")
    /\ IF r.found = {}
       THEN Finish(r, 404)
       ELSE \E l \in FetchAllComments(comments, r.id) :
               Resume(r, [r EXCEPT !.pc = "fetched", !.list = l,
                                   !.seen = {c \in comments : c.lead = r.id}])
    /\ UNCHANGED <<store, now, history>>

GetCommentsRespond(r) ==
    /\ r \in Awaiting("GET /leads/:id/comments", "fetched")
    /\ Finish(r, 200)
    /\ UNCHANGED <<store, now, history>>

\* ------------------------------------------------------------------ clock
\* Time passes.  Only the order of the createdAt stamps is read, so the clock
\* runs no further ahead than one tick for each comment saved.
Tick ==
    /\ now < nextComment - 1
    /\ now' = now + 1
    /\ resp' = NoResp
    /\ UNCHANGED <<store, inflight, history>>

\* ---------------------------------------------------- GET /report/last-week
\* Dates: ticks since the start of month 0 (a January), in the server's zone,
\* taken to have no daylight-saving shift.
DaysInMonth(m) ==
    CASE m % 12 \in {0, 2, 4, 6, 7, 9, 11} -> 31
      [] m % 12 = 1 -> 28
      [] OTHER -> 30

RECURSIVE MonthStart(_)
\* The day on which month m starts
MonthStart(m) == IF m = 0 THEN 0 ELSE MonthStart(m - 1) + DaysInMonth(m - 1)

DayOf(t) == t \div TicksPerDay

MonthOf(day) == CHOOSE m \in 0..11 : MonthStart(m) <= day /\ day < MonthStart(m + 1)

\* Date.prototype.getDate: the day of the month, from 1
GetDate(t) == DayOf(t) - MonthStart(MonthOf(DayOf(t))) + 1

\* Date.prototype.setDate: day d of t's month at t's time of day; d <= 0 counts
\* back from the end of the month before
SetDate(t, d) ==
    (MonthStart(MonthOf(DayOf(t))) + d - 1) * TicksPerDay + (t % TicksPerDay)

\* sevenDaysAgo = new Date(); sevenDaysAgo.setDate(today.getDate() - 7), where
\* the second new Date() reads the clock at `later`
SevenDaysAgo(today, later) == SetDate(later, GetDate(today) - 7)

\* { status: "Closed", closedAt: { $gte: sevenDaysAgo, $lte: today } }
ClosedLastWeek(ls, sevenDaysAgo, today) ==
    {l \in ls : /\ l.status = "Closed"
                /\ l.closedAt # NoDate
                /\ l.closedAt >= sevenDaysAgo
                /\ l.closedAt <= today}

\* sort({ closedAt: -1 })
SortByClosedAtDesc(S) ==
    {f \in Orderings(S) :
        \A i \in 1..(Len(f) - 1) : f[i].closedAt >= f[i + 1].closedAt}

FetchLastWeekReport(ls, today, later) ==
    SortByClosedAtDesc(ClosedLastWeek(ls, SevenDaysAgo(today, later), today))

ReportDays == {29, 30, 33}
ReportStarts == {d * TicksPerDay + k : d \in ReportDays, k \in 0..(TicksPerDay - 1)}
ClockEnd == 34 * TicksPerDay

\* The two new Date() of fetchLastWeekReport read the clock one after the
\* other: the second reads the same tick or the next.
GetLastWeekStart ==
    /\ CanStart
    /\ \E later \in {now, now + 1} :
          /\ later <= ClockEnd
          /\ now' = later
          /\ \E l \in FetchLastWeekReport(leads, now, later) :
                Suspend([NewReq("GET /report/last-week", NoRef) EXCEPT
                            !.pc = "fetched", !.list = l, !.seen = leads, !.at = now])
    /\ UNCHANGED <<store, history>>

GetLastWeekRespond(r) ==
    /\ r \in Awaiting("GET /report/last-week", "fetched")
    /\ Finish(r, 200)
    /\ UNCHANGED <<store, now, history>>

\* ------------------------------------------------------------ initial states
NoHistory ==
    /\ removed = {} /\ rejected = {}
    /\ firstDelete = [i \in 1..MaxLeads |-> 0]
    /\ answered200 = [i \in 1..MaxLeads |-> 0]

\* The process has connected to an empty database
Init ==
    /\ leads = {} /\ agents = {} /\ comments = {}
    /\ nextLead = 1 /\ nextAgent = 1 /\ nextComment = 1
    /\ now = 0
    /\ inflight = {} /\ resp = NoResp
    /\ NoHistory

PlainBodies == {b \in Bodies : b.status = "New" /\ b.salesAgent = NoRef}

PlainBody == CHOOSE b \in PlainBodies : TRUE

\* The process has connected to a database that holds leads 1..MaxLeads
InitLeads ==
    /\ leads = {NewLeadDoc(i, PlainBody, 0) : i \in 1..MaxLeads}
    /\ agents = {} /\ comments = {}
    /\ nextLead = MaxLeads + 1 /\ nextAgent = 1 /\ nextComment = 1
    /\ now = 0
    /\ inflight = {} /\ resp = NoResp
    /\ NoHistory

\* The leads a database may hold at time t: closed or reopened, 8 days, 7 days,
\* a tick less than 7 days, a day and no time ago
ReportLeads(t) ==
    [status : {"Closed", "New"}, salesAgent : {NoRef},
     closedAt : {t - 8 * TicksPerDay, t - 7 * TicksPerDay, t - 7 * TicksPerDay + 1,
                 t - TicksPerDay, t}]

InitReport ==
    /\ now \in ReportStarts
    /\ \E n \in 1..MaxLeads :
          /\ nextLead = n + 1
          /\ \E f \in [1..n -> ReportLeads(now)] :
                leads = {[id |-> i, status |-> f[i].status,
                          salesAgent |-> f[i].salesAgent,
                          closedAt |-> f[i].closedAt] : i \in 1..n}
    /\ agents = {} /\ comments = {}
    /\ nextAgent = 1 /\ nextComment = 1
    /\ inflight = {} /\ resp = NoResp
    /\ NoHistory

\* ------------------------------------------------------------ specifications
\* Each specification runs the handlers that write or read what its properties
\* are about; the handlers it leaves out write none of it.

\* Leads and agents created, and the pipeline count
Next ==
    \/ \E b \in Bodies : PostLeadsStart(b)
    \/ \E r \in inflight : PostLeadsCheckAgent(r)
    \/ \E r \in inflight : PostLeadsRespond(r)
    \/ \E ok \in BOOLEAN : PostAgentsStart(ok)
    \/ \E r \in inflight : PostAgentsRespond(r)
    \/ GetPipelineStart
    \/ \E r \in inflight : GetPipelineRespond(r)

Spec == Init /\ [][Next]_vars

\* Leads and agents created, and the agents listed
NextAgents ==
    \/ \E b \in Bodies : PostLeadsStart(b)
    \/ \E r \in inflight : PostLeadsCheckAgent(r)
    \/ \E r \in inflight : PostLeadsRespond(r)
    \/ \E ok \in BOOLEAN : PostAgentsStart(ok)
    \/ \E r \in inflight : PostAgentsRespond(r)
    \/ GetAgentsStart
    \/ \E r \in inflight : GetAgentsRespond(r)

SpecAgents == Init /\ [][NextAgents]_vars

\* The field validation of POST /leads, on every body
NextValidate ==
    \/ \E b \in ValidationBodies : PostLeadsStart(b)
    \/ \E r \in inflight : PostLeadsCheckAgent(r)
    \/ \E r \in inflight : PostLeadsRespond(r)

SpecValidate == Init /\ [][NextValidate]_vars

\* Leads created and removed
NextDelete ==
    \/ \E b \in PlainBodies : PostLeadsStart(b)
    \/ \E r \in inflight : PostLeadsCheckAgent(r)
    \/ \E id \in LeadIdArgs : DeleteLeadStart(id)
    \/ \E r \in inflight : DeleteLeadRespond(r)

SpecDelete == Init /\ [][NextDelete]_vars

\* Leads created and updated
NextUpdate ==
    \/ \E b \in PlainBodies : PostLeadsStart(b)
    \/ \E r \in inflight : PostLeadsCheckAgent(r)
    \/ \E id \in LeadIdArgs, b \in UpdateBodies : PutLeadStart(id, b)
    \/ \E r \in inflight : PutLeadRespond(r)

SpecUpdate == Init /\ [][NextUpdate]_vars

\* Comments posted on leads that are removed
NextOrphan ==
    \/ \E id \in LeadIdArgs : DeleteLeadStart(id)
    \/ \E r \in inflight : DeleteLeadRespond(r)
    \/ \E id \in LeadIdArgs, text \in CommentTexts, author \in CommentAuthors :
          PostCommentStart(id, text, author)
    \/ \E r \in inflight : PostCommentSave(r)
    \/ \E r \in inflight : PostCommentRespond(r)

SpecOrphan == InitLeads /\ [][NextOrphan]_vars

\* Comments posted and listed as time passes; MaxLeads + 1 is the id of no lead
ThreadIdArgs == LeadIdArgs \cup {MaxLeads + 1}

ThreadTexts == {text \in CommentTexts : ValidCommentText(text)}

NextThread ==
    \/ \E id \in ThreadIdArgs, text \in ThreadTexts, author \in CommentAuthors :
          PostCommentStart(id, text, author)
    \/ \E r \in inflight : PostCommentSave(r)
    \/ \E r \in inflight : PostCommentRespond(r)
    \/ \E id \in ThreadIdArgs : GetCommentsStart(id)
    \/ \E r \in inflight : GetCommentsFetch(r)
    \/ \E r \in inflight : GetCommentsRespond(r)
    \/ Tick

SpecThread == InitLeads /\ [][NextThread]_vars

\* The last-week report over the leads a database may hold
NextReport ==
    \/ GetLastWeekStart
    \/ \E r \in inflight : GetLastWeekRespond(r)

SpecReport == InitReport /\ [][NextReport]_vars

\* ================================================================ properties
Range(f) == {f[i] : i \in DOMAIN f}

Deletes(i) ==
    {r \in inflight : r.kind = "DELETE /leads/:id" /\ r.id = i /\ r.docs # {}}

\* The requests a step suspends, and the response it sends
Moved == (inflight' \ inflight) \cup {resp'}

\* C1: a POST /leads whose body passes validation and whose salesAgent is a
\* well-formed id that matched no agent when it was looked up is answered 404,
\* and the lead it saved is in the lead collection when it is answered.
C1_DanglingLeadStored ==
    (/\ resp.kind = "POST /leads"
     /\ resp.errors = {}
     /\ \E d \in resp.docs : d.salesAgent # NoRef /\ IsMongoId(d.salesAgent)
     /\ ~resp.hit)
    => /\ resp.status = 404
       /\ resp.docs # {}
       /\ resp.docs \subseteq leads

C1_Witness ==
    /\ resp.kind = "POST /leads"
    /\ resp.status = 404
    /\ resp.id \in LeadIds(leads)
    /\ \E d \in resp.docs : d.salesAgent \in 1..MaxAgents

\* C2: GET /agents is answered 404 when the agent collection it read was empty,
\* and 200 with the whole collection when it was not.
C2_AgentsEmpty404 ==
    resp.kind = "GET /agents"
    => /\ resp.seen = {} => resp.status = 404
       /\ resp.seen # {} => resp.status = 200 /\ resp.docs = resp.seen

\* C3: in every reachable state every comment's lead is the id of a lead of the
\* lead collection.
C3_CommentsReferenceLeads == \A c \in comments : c.lead \in LeadIds(leads)

C5_FirstAnswered200 ==
    \A i \in 1..MaxLeads :
       /\ firstDelete[i] \in {0, 200}
       /\ firstDelete[i] = 200 => i \notin LeadIds(leads)
       /\ answered200[i] <= 1

\* C5, amended: the DELETE whose findByIdAndDelete found the lead is the one
\* answered 200, with the document removed; there is one such DELETE at most
\* for an id, and the lead is gone from its removal on; every other DELETE of a
\* well-formed id is answered 404, in whatever order the answers are sent.
C5_OneDeleteWins ==
    /\ \A i \in 1..MaxLeads :
          /\ answered200[i] + Cardinality(Deletes(i)) <= 1
          /\ (answered200[i] > 0 \/ Deletes(i) # {})
             => i \notin LeadIds(leads) /\ i \in removed
    /\ \A r \in inflight \cup {resp} :
          (r.kind = "DELETE /leads/:id" /\ IsValidObjectId(r.id))
          => /\ r.hit <=> r.docs # {}
             /\ \A d \in r.docs : d.id = r.id
             /\ r.pc = "done" => r.status = IF r.hit THEN 200 ELSE 404

C5_Witness ==
    /\ resp.kind = "DELETE /leads/:id"
    /\ resp.status = 200
    /\ firstDelete[resp.id] = 404
    /\ resp.id \notin LeadIds(leads)

\* C6: a PUT /leads/:id whose body passes validation is answered 400 when the
\* id is malformed and 404 when it is well-formed and matched no lead; no step
\* of such a request changes the lead collection.
C6_PutMissingLead ==
    /\ [](\A r \in inflight \cup {resp} :
             (r.kind = "PUT /leads/:id" /\ r.errors = {})
             => /\ ~IsValidObjectId(r.id) => r.pc = "done" /\ r.status = 400
                /\ (IsValidObjectId(r.id) /\ ~r.hit)
                   => r.docs = {} /\ (r.pc = "done" => r.status = 404))
    /\ [][\A r \in Moved :
             (r.kind = "PUT /leads/:id" /\ r.errors = {}
                /\ (~IsValidObjectId(r.id) \/ ~r.hit))
             => leads' = leads /\ nextLead' = nextLead]_vars

C6_Witness ==
    /\ resp.kind = "PUT /leads/:id"
    /\ resp.status = 404
    /\ resp.errors = {}
    /\ leads # {}

\* C7: GET /report/last-week is answered 200 with the leads, among those read,
\* whose status is Closed and whose closedAt is no more than 7 days before the
\* time of the request and no later than it.
C7_LastWeekWindow ==
    resp.kind = "GET /report/last-week"
    => /\ resp.status = 200
       /\ Range(resp.list) =
             {l \in resp.seen : /\ l.status = "Closed"
                                /\ l.closedAt >= resp.at - 7 * TicksPerDay
                                /\ l.closedAt <= resp.at}

\* C8, as claimed: GET /leads/:id/comments of an existing lead is answered with
\* the comments of that lead, each once, every one of a createdAt strictly
\* later than the next.
C8_StrictlyDescending ==
    (resp.kind = "GET /leads/:id/comments" /\ resp.hit)
    => /\ resp.status = 200
       /\ Range(resp.list) = resp.seen
       /\ Len(resp.list) = Cardinality(resp.seen)
       /\ \A i \in 1..(Len(resp.list) - 1) :
             resp.list[i].createdAt > resp.list[i + 1].createdAt

\* C8, amended: every one of a createdAt later than or equal to the next.
C8_CommentsNewestFirst ==
    (resp.kind = "GET /leads/:id/comments" /\ resp.hit)
    => /\ resp.status = 200
       /\ Range(resp.list) = resp.seen
       /\ \A c \in resp.seen : c.lead = resp.id
       /\ Len(resp.list) = Cardinality(resp.seen)
       /\ \A i \in 1..(Len(resp.list) - 1) :
             resp.list[i].createdAt >= resp.list[i + 1].createdAt

C8_Witness ==
    /\ resp.kind = "GET /leads/:id/comments"
    /\ resp.status = 200
    /\ Len(resp.list) >= 2
    /\ resp.list[1].createdAt > resp.list[2].createdAt

\* C9: GET /report/pipeline is answered 200 with the number of leads the
\* collection held when it was counted, whatever their status and whatever the
\* answer to the POST /leads that created them.
C9_PipelineCount ==
    resp.kind = "GET /report/pipeline"
    => resp.status = 200 /\ resp.count = resp.at

C9_Witness ==
    /\ resp.kind = "GET /report/pipeline"
    /\ resp.count = 2
    /\ resp.hit
    /\ resp.known

\* C10: a POST /leads whose status is outside the enum or whose salesAgent is
\* malformed is answered 400 in the step that receives it, which writes no
\* lead; no such request is ever suspended at a store operation.
C10_InvalidLeadRefused ==
    /\ [](/\ \A r \in inflight : ~r.bad
          /\ (resp.kind = "POST /leads" /\ resp.bad) => resp.status = 400)
    /\ [][(resp'.kind = "POST /leads" /\ resp'.bad)
          => leads' = leads /\ nextLead' = nextLead /\ inflight' = inflight]_vars

C10_Witness ==
    /\ resp.kind = "POST /leads"
    /\ resp.bad
    /\ resp.status = 400
    /\ "status" \in resp.errors
    /\ leads # {}
====
